---- MODULE Spec2Model ----
(***************************************************************************)
(* Model of sensoff (src/sensoff/sensoff.py): sensor_coordinates reads the *)
(* GPS rows (read_xy), estimates one heading per point                     *)
(* (platform_headings) and projects the sensor offset (offset_coords).     *)
(*                                                                         *)
(* Numbers.  Python floats are modelled exactly on the inputs drawn here:  *)
(*   - a coordinate is an integer-valued float that keeps the sign of its  *)
(*     zero, [v, nz]: nz marks -0.0 (the csv reader parses "-0.0" to it);  *)
(*   - consecutive points share their x or their y (axis-aligned legs), so *)
(*     hypot is an integer and atan2 a multiple of pi/2;                   *)
(*   - an angle is NaN or a reduced fraction n/d of quarter turns (pi/2);  *)
(*     pi is 2 quarter turns;                                              *)
(*   - a sensor coordinate x + rdist*cos(phi) is kept as the term          *)
(*     [base, r, phi, fn], NaN when phi is NaN (0.0 * nan is nan).         *)
(***************************************************************************)
EXTENDS Integers, Sequences, FiniteSets, TLC

VARIABLES
    rows,                \* the lines of gps_file, in order
    inline_offset,       \* sensor_coordinates argument
    lateral_offset,      \* sensor_coordinates argument
    headrows,            \* read_xy: header rows to skip (0 when not passed)
    headrows_not_passed, \* read_xy: headrows was None
    pos,                 \* read_xy: rows consumed from datafile
    row_cnt,             \* read_xy: row_cnt
    rows_not_yet_read,   \* read_xy: rows_not_yet_read
    gps_coords,          \* read_xy: xy, then gps_coords of the two stages
    angles,              \* platform_headings: angles
    distances,           \* platform_headings: distances
    headings,            \* platform_headings: headings
    leg,                 \* platform_headings: index of the pair the loop is at
    coords,              \* offset_coords: coords without its constant title row
    pc,                  \* position in sensor_coordinates
    err                  \* the exception that ended the call, "" when none

vars == <<rows, inline_offset, lateral_offset, headrows, headrows_not_passed,
          pos, row_cnt, rows_not_yet_read, gps_coords, angles, distances,
          headings, leg, coords, pc, err>>

(***************************** bounds **************************************)
MaxCoord == 2
MaxLen == 3
MaxRows == 6
MaxHeadRows == 2

(***************************** floats **************************************)
Flt(n) == [v |-> n, nz |-> FALSE]
NegZero == [v |-> 0, nz |-> TRUE]

\* IEEE subtraction of two integer-valued floats: x - x is +0.0, and a zero
\* difference is -0.0 only for (-0.0) - (+0.0).
FSub(a, b) ==
    [v |-> a.v - b.v, nz |-> (a.v = 0 /\ b.v = 0 /\ a.nz /\ ~b.nz)]

Abs(n) == IF n < 0 THEN -n ELSE n

RECURSIVE Gcd(_, _)
Gcd(a, b) == IF b = 0 THEN a ELSE Gcd(b, a % b)

\* The angle n/d quarter turns, reduced, d > 0.
Ang(n, d) ==
    LET g == Gcd(Abs(n), d)
    IN  [nan |-> FALSE, n |-> n \div g, d |-> d \div g]

NaN == [nan |-> TRUE, n |-> 0, d |-> 1]
pi == Ang(2, 1)
two_pi == Ang(4, 1)

AngLess(a, b) == a.n * b.d < b.n * a.d
AngAdd(a, b) ==
    IF a.nan \/ b.nan THEN NaN ELSE Ang(a.n * b.d + b.n * a.d, a.d * b.d)
AngSub(a, b) ==
    IF a.nan \/ b.nan THEN NaN ELSE Ang(a.n * b.d - b.n * a.d, a.d * b.d)

\* math.atan2 on the vectors met here (one component a zero), signed zeros
\* as C99 gives them; a result of -0.0 is kept as 0 (it compares and adds
\* as 0.0).
atan2(y, x) ==
    CASE y.v > 0 -> Ang(1, 1)
      [] y.v < 0 -> Ang(-1, 1)
      [] y.v = 0 /\ x.v > 0 -> Ang(0, 1)
      [] y.v = 0 /\ x.v < 0 -> IF y.nz THEN Ang(-2, 1) ELSE Ang(2, 1)
      [] OTHER -> IF x.nz THEN (IF y.nz THEN Ang(-2, 1) ELSE Ang(2, 1))
                  ELSE Ang(0, 1)

\* math.hypot where one argument is a zero.
hypot(a, b) == Abs(a.v) + Abs(b.v)

\* math.isclose(diff, pi): every difference of two leg angles is a whole
\* number of quarter turns, so the 1e-9 relative tolerance admits pi alone.
isclose(a, b) == a = b

(***************************** inputs **************************************)
Coordinates == {NegZero} \cup {Flt(n) : n \in 0..MaxCoord}
Points == Coordinates \X Coordinates

AxisAligned(p, q) == p[1].v = q[1].v \/ p[2].v = q[2].v

SeqsUpTo(S, n) == UNION {[1..m -> S] : m \in 0..n}

PointSequences ==
    {s \in SeqsUpTo(Points, MaxLen) :
        /\ Len(s) >= 1
        /\ \A i \in 1..(Len(s) - 1) : AxisAligned(s[i], s[i + 1])}

OffsetVectors == {<<0, 0>>, <<1, 0>>, <<0, -1>>, <<-2, 0>>}

\* A line of the file: either it fails numeric parsing, or it holds a point.
BadRow == [bad |-> TRUE, xy |-> <<Flt(0), Flt(0)>>]
DataRow(p) == [bad |-> FALSE, xy |-> p]
FilePoints == {<<Flt(0), Flt(0)>>, <<Flt(1), Flt(0)>>}
FileRows == {BadRow} \cup {DataRow(p) : p \in FilePoints}

(***************************** read_xy *************************************)
HeaderRowLimit == 6

\* SkipAllowed with the row limit off by one (row_cnt <= 6).
SkipAllowedOffByOne(not_passed, not_yet_read, cnt) ==
    not_passed /\ not_yet_read /\ cnt <= HeaderRowLimit

\* The test that lets a failing row pass as a header.
SkipAllowed(not_passed, not_yet_read, cnt) ==
    not_passed /\ not_yet_read /\ cnt < HeaderRowLimit

\* for row in range(headrows): next(datafile)
SkipHeadrows ==
    /\ pc = "skip_head"
    /\ IF headrows > Len(rows)
       THEN /\ pc' = "error"
            /\ err' = "StopIteration"
            /\ pos' = Len(rows)
       ELSE /\ pc' = "read"
            /\ err' = err
            /\ pos' = headrows
    /\ UNCHANGED <<rows, inline_offset, lateral_offset, headrows,
                   headrows_not_passed, row_cnt, rows_not_yet_read,
                   gps_coords, angles, distances, headings, leg, coords>>

\* One turn of the while loop: next(reader) gives a row, fails, or is at
\* the end of the file.
ReadRow ==
    /\ pc = "read"
    /\ row_cnt' = row_cnt + 1
    /\ IF pos = Len(rows)
       THEN \* StopIteration: break, close, return xy
            /\ pc' = "headings"
            /\ UNCHANGED <<pos, rows_not_yet_read, gps_coords, err>>
       ELSE IF ~rows[pos + 1].bad
       THEN /\ rows_not_yet_read' = FALSE
            /\ gps_coords' = Append(gps_coords, rows[pos + 1].xy)
            /\ pos' = pos + 1
            /\ UNCHANGED <<pc, err>>
       ELSE IF SkipAllowed(headrows_not_passed, rows_not_yet_read, row_cnt')
       THEN /\ pos' = pos + 1
            /\ UNCHANGED <<pc, rows_not_yet_read, gps_coords, err>>
       ELSE /\ pc' = "error"
            /\ err' = "ValueError"
            /\ pos' = pos + 1
            /\ UNCHANGED <<rows_not_yet_read, gps_coords>>
    /\ UNCHANGED <<rows, inline_offset, lateral_offset, headrows,
                   headrows_not_passed, angles, distances, headings, leg,
                   coords>>

(************************** platform_headings ******************************)
\* pairwise(s): the indices i of the pairs (s[i], s[i+1]).
pairwise(s) == 1..(Len(s) - 1)

LegAngles(pts) ==
    [i \in pairwise(pts) |->
        atan2(FSub(pts[i + 1][2], pts[i][2]), FSub(pts[i + 1][1], pts[i][1]))]

LegDistances(pts) ==
    [i \in pairwise(pts) |->
        hypot(FSub(pts[i + 1][1], pts[i][1]), FSub(pts[i + 1][2], pts[i][2]))]

\* LegPairs with each leg angle weighted by its own leg's length.
LegPairsDirect(a0, a1, d0, d1) == <<<<a0, d0>>, <<a1, d1>>>>

\* The two (angle, weight) pairs before sorting: each leg angle is weighted
\* by the other leg's length.
LegPairs(a0, a1, d0, d1) == <<<<a0, d1>>, <<a1, d0>>>>

\* Python's tuple order on (angle, weight).
PairLess(p, q) ==
    \/ AngLess(p[1], q[1])
    \/ (p[1] = q[1] /\ p[2] < q[2])

sorted(ps) == IF PairLess(ps[2], ps[1]) THEN <<ps[2], ps[1]>> ELSE ps

\* Opposite with the difference taken the wrong way round.
OppositeReversed(angle0, angle1) == isclose(AngSub(angle0, angle1), pi)

\* The rays of the two sorted angles point in opposite directions.
Opposite(angle0, angle1) == isclose(AngSub(angle1, angle0), pi)

\* The body of the loop for one pair of legs: the heading appended, or the
\* ZeroDivisionError of the float division.
LoopBody(a0, a1, d0, d1) ==
    LET s == sorted(LegPairs(a0, a1, d0, d1))
        angle0 == s[1][1]
        weight0 == s[1][2]
        angle1 == s[2][1]
        weight1 == s[2][2]
        wrapped == IF AngLess(pi, AngSub(angle1, angle0))
                   THEN AngAdd(angle0, two_pi) ELSE angle0
        ave == Ang(weight0 * wrapped.n * angle1.d + weight1 * angle1.n * wrapped.d,
                   (weight0 + weight1) * wrapped.d * angle1.d)
    IN  IF Opposite(angle0, angle1) THEN [raise |-> FALSE, h |-> NaN]
        ELSE IF weight0 + weight1 = 0 THEN [raise |-> TRUE, h |-> NaN]
        ELSE [raise |-> FALSE,
              h |-> IF AngLess(pi, ave) THEN AngSub(ave, two_pi) ELSE ave]

HeadingsInit ==
    /\ pc = "headings"
    /\ angles' = LegAngles(gps_coords)
    /\ distances' = LegDistances(gps_coords)
    /\ headings' = <<NaN>>
    /\ leg' = 1
    /\ pc' = "headings_loop"
    /\ UNCHANGED <<rows, inline_offset, lateral_offset, headrows,
                   headrows_not_passed, pos, row_cnt, rows_not_yet_read,
                   gps_coords, coords, err>>

HeadingsStep ==
    /\ pc = "headings_loop"
    /\ leg \in pairwise(angles)
    /\ LET r == LoopBody(angles[leg], angles[leg + 1],
                         distances[leg], distances[leg + 1])
       IN  IF r.raise
           THEN /\ pc' = "error"
                /\ err' = "ZeroDivisionError"
                /\ UNCHANGED <<headings, leg>>
           ELSE /\ headings' = Append(headings, r.h)
                /\ leg' = leg + 1
                /\ UNCHANGED <<pc, err>>
    /\ UNCHANGED <<rows, inline_offset, lateral_offset, headrows,
                   headrows_not_passed, pos, row_cnt, rows_not_yet_read,
                   gps_coords, angles, distances, coords>>

HeadingsReturn ==
    /\ pc = "headings_loop"
    /\ leg \notin pairwise(angles)
    /\ headings' = Append(headings, NaN)
    /\ pc' = "offset"
    /\ UNCHANGED <<rows, inline_offset, lateral_offset, headrows,
                   headrows_not_passed, pos, row_cnt, rows_not_yet_read,
                   gps_coords, angles, distances, leg, coords, err>>

(***************************** offset_coords *******************************)
\* base + rdist * fn(phi) as a float: nan when phi is nan, whatever rdist.
Term(base, rdist, phi, fn) ==
    [nan |-> phi.nan, base |-> base, r |-> rdist, phi |-> phi, fn |-> fn]

\* SensorRow with cos used for ysens too.
SensorRowCosTwice(p, angle, gamma, rdist) ==
    [x |-> p[1], y |-> p[2],
     xsens |-> Term(p[1], rdist, AngAdd(angle, gamma), "cos"),
     ysens |-> Term(p[2], rdist, AngAdd(angle, gamma), "cos")]

\* One row [x, y, xsens, ysens] of coords.
SensorRow(p, angle, gamma, rdist) ==
    [x |-> p[1], y |-> p[2],
     xsens |-> Term(p[1], rdist, AngAdd(angle, gamma), "cos"),
     ysens |-> Term(p[2], rdist, AngAdd(angle, gamma), "sin")]

Min(a, b) == IF a < b THEN a ELSE b

\* zip(gps_coords, headings) stops at the shorter of the two.
offset_coords(pts, hs, ioff, loff) ==
    LET gamma == atan2(Flt(loff), Flt(ioff))
        rdist == hypot(Flt(loff), Flt(ioff))
    IN  [i \in 1..Min(Len(pts), Len(hs)) |->
            SensorRow(pts[i], hs[i], gamma, rdist)]

OffsetCoords ==
    /\ pc = "offset"
    /\ coords' = offset_coords(gps_coords, headings, inline_offset,
                               lateral_offset)
    /\ pc' = "done"
    /\ UNCHANGED <<rows, inline_offset, lateral_offset, headrows,
                   headrows_not_passed, pos, row_cnt, rows_not_yet_read,
                   gps_coords, angles, distances, headings, leg, err>>

(************************** specifications *********************************)
\* sensor_coordinates(gps_file, inline_offset, lateral_offset, headrows=...)
InitFile ==
    /\ rows \in SeqsUpTo(FileRows, MaxRows)
    /\ \E o \in {<<0, 0>>, <<1, 0>>} :
          inline_offset = o[1] /\ lateral_offset = o[2]
    /\ \E h \in {<<TRUE, 0>>} \cup {<<FALSE, n>> : n \in 0..MaxHeadRows} :
          headrows_not_passed = h[1] /\ headrows = h[2]
    /\ pos = 0
    /\ row_cnt = 0
    /\ rows_not_yet_read = TRUE
    /\ gps_coords = <<>>
    /\ angles = <<>>
    /\ distances = <<>>
    /\ headings = <<>>
    /\ leg = 0
    /\ coords = <<>>
    /\ pc = "skip_head"
    /\ err = ""

Next ==
    \/ SkipHeadrows
    \/ ReadRow
    \/ HeadingsInit
    \/ HeadingsStep
    \/ HeadingsReturn
    \/ OffsetCoords

Spec == InitFile /\ [][Next]_vars

\* offset_coords(pts, platform_headings(pts), inline_offset, lateral_offset)
\* on a point sequence handed over directly.
InitPoints ==
    /\ gps_coords \in PointSequences
    /\ \E o \in OffsetVectors :
          inline_offset = o[1] /\ lateral_offset = o[2]
    /\ rows = <<>>
    /\ headrows_not_passed = TRUE
    /\ headrows = 0
    /\ pos = 0
    /\ row_cnt = 0
    /\ rows_not_yet_read = TRUE
    /\ angles = <<>>
    /\ distances = <<>>
    /\ headings = <<>>
    /\ leg = 0
    /\ coords = <<>>
    /\ pc = "headings"
    /\ err = ""

NextPoints ==
    \/ HeadingsInit
    \/ HeadingsStep
    \/ HeadingsReturn
    \/ OffsetCoords

SpecPoints == InitPoints /\ [][NextPoints]_vars

(***************************** properties **********************************)
\* platform_headings has returned its list.
HeadingsReturned == pc \in {"offset", "done"}

\* The loop of platform_headings has appended the heading of the interior
\* point between legs i and i + 1 (headings[i + 1]).
Appended(i) == i \in pairwise(angles) /\ Len(headings) >= i + 1

\* The float value of a sensor coordinate equals x.
TermEquals(t, x) == ~t.nan /\ t.base = x /\ t.r = 0

\* hypot(xsens - x, ysens - y) = d: rdist * hypot(cos(phi), sin(phi)).
DistanceIs(row, d) ==
    /\ ~row.xsens.nan /\ ~row.ysens.nan
    /\ row.xsens.base = row.x /\ row.ysens.base = row.y
    /\ row.xsens.fn = "cos" /\ row.ysens.fn = "sin"
    /\ row.xsens.phi = row.ysens.phi
    /\ row.xsens.r = d /\ row.ysens.r = d

InteriorIndices == 2..(Len(gps_coords) - 1)

SamePoint(p, q) == p[1].v = q[1].v /\ p[2].v = q[2].v

AngLeq(a, b) == ~AngLess(b, a)

AngAbs(a) == IF a.n < 0 THEN Ang(-a.n, a.d) ELSE a

\* The two angles differ by pi.
DifferByPi(a, b) == AngAbs(AngSub(a, b)) = pi

\* The angle between the directions a and b, in [0, pi].
CircDist(a, b) ==
    LET d == AngAbs(AngSub(a, b))
    IN  IF AngLess(pi, d) THEN AngSub(two_pi, d) ELSE d

\* (d1*a0 + d0*a1) / (d0 + d1) along the shorter arc between a0 and a1.
CrossAverage(a0, a1, d0, d1) ==
    LET u0 == IF AngLess(pi, AngSub(a1, a0)) THEN AngAdd(a0, two_pi) ELSE a0
        u1 == IF AngLess(pi, AngSub(a0, a1)) THEN AngAdd(a1, two_pi) ELSE a1
        avg == Ang(d1 * u0.n * u1.d + d0 * u1.n * u0.d, (d0 + d1) * u0.d * u1.d)
    IN  IF AngLess(pi, avg) THEN AngSub(avg, two_pi) ELSE avg

\* C1: with inline_offset = lateral_offset = 0 the corrected coordinates of
\* platform_headings followed by offset_coords equal the input (x, y) at
\* every index, the first, the last and those with a NaN heading included.
C1_ZeroOffsetIdentity ==
    (pc = "done" /\ inline_offset = 0 /\ lateral_offset = 0) =>
        /\ Len(coords) = Len(gps_coords)
        /\ \A i \in 1..Len(coords) :
              /\ TermEquals(coords[i].xsens, gps_coords[i][1])
              /\ TermEquals(coords[i].ysens, gps_coords[i][2])

\* C2 as claimed: for a non-zero offset, at every interior index of the
\* result the distance from the sensor point to the GPS point is
\* hypot(inline, lateral), whatever the heading.
C2_DistanceInvariant ==
    (pc = "done" /\ <<inline_offset, lateral_offset>> # <<0, 0>>) =>
        \A i \in InteriorIndices :
            DistanceIs(coords[i],
                       hypot(Flt(inline_offset), Flt(lateral_offset)))

\* C2 as amended: for a non-zero offset, at every interior index of the
\* result whose heading is not NaN the distance from the sensor point to
\* the GPS point is hypot(inline, lateral).
C2_DistanceInvariantDefined ==
    (pc = "done" /\ <<inline_offset, lateral_offset>> # <<0, 0>>) =>
        \A i \in InteriorIndices :
            ~headings[i].nan =>
                DistanceIs(coords[i],
                           hypot(Flt(inline_offset), Flt(lateral_offset)))

C2_Witness ==
    /\ pc = "done"
    /\ <<inline_offset, lateral_offset>> = <<0, -1>>
    /\ Len(gps_coords) = 3
    /\ headings[2] = Ang(1, 3)
    /\ DistanceIs(coords[2], 1)

\* C3: platform_headings never raises, whatever the geometry: identical
\* consecutive points give NaN headings, not an error.
C3_NeverRaises == pc # "error"

\* C4: for every point sequence of length n >= 1 the list platform_headings
\* returns has exactly n entries.
C4_HeadingLength ==
    (HeadingsReturned /\ Len(gps_coords) >= 1) =>
        Len(headings) = Len(gps_coords)

\* C5: every non-NaN heading platform_headings appends lies in (-pi, pi].
C5_HeadingRange ==
    \A i \in 1..Len(headings) :
        ~headings[i].nan =>
            /\ AngLess(Ang(-2, 1), headings[i])
            /\ AngLeq(headings[i], pi)

\* C6: at an interior point whose incoming and outgoing leg angles differ by
\* pi the heading is NaN and no average is computed (so no division is
\* attempted there); in particular the heading at B of [A, B, A], A # B, is
\* NaN.
C6_OppositeLegs ==
    /\ \A i \in pairwise(angles) :
          DifferByPi(angles[i], angles[i + 1]) =>
              /\ Appended(i) => headings[i + 1].nan
              /\ ~(pc = "error" /\ leg = i)
    /\ \A i \in InteriorIndices :
          (/\ SamePoint(gps_coords[i - 1], gps_coords[i + 1])
           /\ ~SamePoint(gps_coords[i - 1], gps_coords[i])
           /\ pc \in {"offset", "done"}) => headings[i].nan

C6_Witness ==
    /\ pc = "done"
    /\ Len(gps_coords) = 3
    /\ SamePoint(gps_coords[1], gps_coords[3])
    /\ ~SamePoint(gps_coords[1], gps_coords[2])
    /\ headings[2].nan
    /\ coords[2].xsens.nan

\* C7: when the point source yields zero points, sensor_coordinates ends
\* with an error and returns no result.
C7_EmptyInputFails == pc = "done" => Len(gps_coords) >= 1

C9_DegenerateLegNaN ==
    \A i \in InteriorIndices :
        (/\ HeadingsReturned
         /\ \/ SamePoint(gps_coords[i], gps_coords[i - 1])
            \/ SamePoint(gps_coords[i], gps_coords[i + 1])) =>
            headings[i].nan

\* The rows read_xy parses, after the headrows lines it skips unparsed.
Body == SubSeq(rows, headrows + 1, Len(rows))

IsData(r) == ~r.bad

DataOf(s) ==
    LET d == SelectSeq(s, IsData) IN [i \in 1..Len(d) |-> d[i].xy]

\* The index of the first data row of s, Len(s) + 1 when it has none.
FirstData(s) ==
    IF \E k \in 1..Len(s) : ~s[k].bad
    THEN CHOOSE k \in 1..Len(s) :
            ~s[k].bad /\ \A j \in 1..(k - 1) : s[j].bad
    ELSE Len(s) + 1

\* Row k of the body may be dropped as a header.
HeaderLike(k) ==
    headrows_not_passed /\ k < FirstData(Body) /\ k <= 5

\* read_xy has returned xy.
ReadReturned ==
    \/ pc \in {"headings", "headings_loop", "offset", "done"}
    \/ (pc = "error" /\ err = "ZeroDivisionError")

\* C10: a row that fails numeric parsing is skipped only when headrows was
\* not passed, no data row has been read and it is among the first 5 rows;
\* any other failing row raises and ends the read; the list returned (and
\* the list built so far) holds the data rows in input order.
C10_HeaderAutoSkip ==
    LET n == pos - headrows
    IN  /\ pc = "read" =>
            /\ \A k \in 1..n : Body[k].bad => HeaderLike(k)
            /\ gps_coords = DataOf(SubSeq(Body, 1, n))
        /\ ReadReturned =>
            /\ \A k \in 1..Len(Body) : Body[k].bad => HeaderLike(k)
            /\ gps_coords = DataOf(Body)
        /\ (pc = "error" /\ err = "ValueError") =>
            /\ Body[n].bad /\ ~HeaderLike(n)
            /\ \A k \in 1..(n - 1) : Body[k].bad => HeaderLike(k)
            /\ gps_coords = DataOf(SubSeq(Body, 1, n - 1))

C10_Witness ==
    /\ pc = "done"
    /\ headrows_not_passed
    /\ Len(rows) = 4
    /\ rows[1].bad /\ rows[2].bad
    /\ gps_coords = <<rows[3].xy, rows[4].xy>>

====
